---- MODULE Spec2Model ----
(***************************************************************************)
(* Model of the moderator-pings cog (bot/exts/moderation/modpings.py):     *)
(* the off / on / schedule commands, the two startup reconciliation tasks, *)
(* the timers they arm and the shift cycle, together with the durable      *)
(* caches and the platform's role state.                                   *)
(*                                                                         *)
(* Time is counted in whole seconds.  A naive datetime is the number of    *)
(* seconds since day 0, 00:00; the process clock `now` is naive UTC.       *)
(* Awaited platform / cache calls take no model time: the clock only       *)
(* advances when no coroutine is runnable, and then only to the next       *)
(* deadline (a timer's fire time or the end of a sleep).                   *)
(***************************************************************************)
EXTENDS Integers, Sequences, FiniteSets, TLC

----------------------------------------------------------------------------
(* Bounds of the model *)

MaxCommands == 2        \* commands issued in one behaviour
MaxCrashes == 1         \* process restarts in one behaviour
MaxDays == 2            \* the clock stops advancing after this many days

ModTeam == << 1, 2 >>   \* mod_team.members, in the order the guild lists them
Mods == { ModTeam[i] : i \in DOMAIN ModTeam }

----------------------------------------------------------------------------
(* Program constants *)

MINIMUM_WORK_LIMIT == 16      \* hours
OFF_LIMIT_DAYS == 30          \* timedelta(days=30) in off_command
REARM_GAP_MINUTES == 1        \* timedelta(minutes=1) in remove_role_schedule

Minute == 60 * 1
Hour == 60 * Minute
Day == 24 * Hour
MaxTime == MaxDays * Day

----------------------------------------------------------------------------
(* datetime values handed to the schedule command by dateutil's parse():   *)
(* a wall-clock reading, and a UTC offset when the text carried one.       *)

DateTime(wall, aware, utcoff) == [wall |-> wall, aware |-> aware, utcoff |-> utcoff]
Naive(wall) == DateTime(wall, FALSE, 0)
Aware(wall, utcoff) == DateTime(wall, TRUE, utcoff)

\* The instant an aware datetime denotes; a naive one is its wall reading.
Instant(dt) == IF dt.aware THEN dt.wall - dt.utcoff ELSE dt.wall

\* Comparing or subtracting a naive and an aware datetime raises TypeError.
Mixed(a, b) == a.aware # b.aware

\* a < b and a - b (in seconds) on datetimes of the same kind
DtLess(a, b) == Instant(a) < Instant(b)
DtSub(a, b) == Instant(a) - Instant(b)

\* dt + timedelta(seconds=s)
DtAdd(dt, s) == [dt EXCEPT !.wall = @ + s]

\* dt.replace(tzinfo=None): the offset is dropped, the wall reading is kept
StripTz(dt) == Naive(dt.wall)

\* datetime.isoformat() of a naive datetime, as the fields of the text
\* "<date>T<hh>:<mm>:<ss>", and dateutil's isoparse() of such a text.
IsoFormat(t) == << t \div Day, (t % Day) \div Hour, (t % Hour) \div Minute, t % Minute >>
IsoParse(s) == s[1] * Day + s[2] * Hour + s[3] * Minute + s[4]

\* f"{start.timestamp()}|{work_time}": the two fields of the stored text
ScheduleValue(start, work_time) == << start.wall, work_time >>

----------------------------------------------------------------------------
(* Mappings with a partial domain (the caches, the scheduler's tasks) *)

Empty == [k \in {} |-> 0]
Put(f, k, v) == [x \in DOMAIN f \cup {k} |-> IF x = k THEN v ELSE f[x]]
Del(f, k) == [x \in DOMAIN f \ {k} |-> f[x]]

----------------------------------------------------------------------------
(* bot.utils.scheduling.Scheduler: named, cancellable deferred actions *)

ReapplyRole == [action |-> "reapply_role", work |-> 0, start |-> 0]
AddRoleSchedule(work_time, start) ==
    [action |-> "add_role_schedule", work |-> work_time, start |-> start]

\* key in scheduler
SchedulerContains(s, key) == key \in DOMAIN s

\* schedule_at(time, key, coroutine): no implicit overwrite, a key that is
\* already pending keeps its timer and the new coroutine is dropped.
SchedulerScheduleAt(s, time, key, coro) ==
    IF SchedulerContains(s, key) THEN s
    ELSE Put(s, key, [time |-> time, action |-> coro.action,
                      work |-> coro.work, start |-> coro.start])

\* cancel(key): removes the pending timer; nothing happens for an absent key
SchedulerCancel(s, key) == Del(s, key)

\* cancel_all(): cancels every pending timer
SchedulerCancelAll(s) == [k \in {} |-> 0]

----------------------------------------------------------------------------
VARIABLES
    now,                \* datetime.utcnow(), seconds
    roles,              \* moderators_role.members (platform state)
    pings_off_mods,     \* RedisCache: mod id -> isoformat text of the expiry
    modpings_schedule,  \* RedisCache: mod id -> "start timestamp|work seconds"
    scheduled,          \* _role_scheduler: key -> pending timer
    tasks,              \* fired add_role_schedule coroutines
    cmd,                \* the command coroutines in progress, in order of arrival
    reschedule_task,    \* the reschedule_roles() task
    modpings_schedule_task, \* the reschedule_modpings_schedule() task
    ncommands,          \* commands issued so far
    ncrashes,           \* restarts so far
    last,               \* the step just taken (history)
    hist,               \* per moderator: an off, then an on, run alone (history)
    recovering,         \* mods whose off command was cut between write and arm
    wait_for_deletion,  \* one call of utils.messages.wait_for_deletion
    loaded              \* the cog is loaded: cog_unload has not run in this process

vars == << now, roles, pings_off_mods, modpings_schedule, scheduled, tasks, cmd,
           reschedule_task, modpings_schedule_task, ncommands, ncrashes, last,
           hist, recovering, wait_for_deletion, loaded >>

\* wait_for_deletion before it is called
NotCalled == [pc |-> "not_called"]

\* A command coroutine of moderator `mod`, suspended before step `pc`;
\* `alone` (history): no other command of that moderator has overlapped it
Coroutine(mod, pc, time, work) ==
    [mod |-> mod, pc |-> pc, time |-> time, work |-> work, alone |-> TRUE]

\* The step just taken: the operation, the moderator, its inputs, its outcome
Step(op, mod, a, b, out) ==
    [op |-> op, mod |-> mod, a |-> a, b |-> b, out |-> out,
     start |-> Naive(0), end |-> Naive(0), alone |-> TRUE]

\* The same for the schedule command, whose inputs are two datetimes
ScheduleStep(mod, start, end, out) ==
    [op |-> "schedule_modpings", mod |-> mod, a |-> 0, b |-> 0, out |-> out,
     start |-> start, end |-> end, alone |-> TRUE]

\* self.moderators_role is set once the guild is available (line 47); the
\* gateway delivers no command before that.
GuildReady == reschedule_task.pc # "start"

\* A command is run as soon as it arrives, whatever else is in progress;
\* an unloaded cog receives none.
CanIssue(m) == loaded /\ GuildReady /\ ncommands < MaxCommands

\* The coroutine i goes on to its next await; a sequence without its i-th
Resume(i, pc) == [cmd EXCEPT ![i].pc = pc]
Without(seq, i) == [j \in 1..(Len(seq) - 1) |-> IF j < i THEN seq[j] ELSE seq[j + 1]]

\* Positions in `cmd` and in `tasks`: every coroutine stems from a command
Coroutines == 1..MaxCommands

\* The commands of moderator m that are in progress
InProgress(m) == { i \in DOMAIN cmd : cmd[i].mod = m }

\* A command of moderator m arrives and runs up to its first await
Arrive(m, pc, time, work) ==
    Append([i \in DOMAIN cmd |->
               IF cmd[i].mod = m THEN [cmd[i] EXCEPT !.alone = FALSE] ELSE cmd[i]],
           [Coroutine(m, pc, time, work) EXCEPT !.alone = InProgress(m) = {}])

\* The last step of the command coroutine i
Ended(i, op, a, b, out) == [Step(op, cmd[i].mod, a, b, out) EXCEPT !.alone = cmd[i].alone]

SetHist(m, h) == [hist EXCEPT ![m] = h]

----------------------------------------------------------------------------
(* Membership tests as Python evaluates them *)

\* `mod in pings_on`: a Member against a list of Members, compared by id.
MemberInList(mod, members) == mod \in members

\* `mod in <dict keyed by int ids>`: a Member object hashes and compares
\* unlike any int, so the test is false whatever the dict holds.
MemberInCache(mod, cache) == FALSE

\* (variant: the Member itself looked up among the int keys)
IdInCacheByMember(mod, cache) == MemberInCache(mod, cache)

\* `mod.id in pings_off`
IdInCache(mod, cache) == mod \in DOMAIN cache

----------------------------------------------------------------------------
(* off_command *)

\* (variant: delta.days > 30, which drops the part of a day)
OffTooLongWholeDays(delta) == delta \div Day > OFF_LIMIT_DAYS

\* delta > datetime.timedelta(days=30)
OffTooLong(delta) == delta > OFF_LIMIT_DAYS * Day

\* lines 156-158: cancel a pending task for the key, then schedule the re-apply
OffReschedule(s, key, duration) ==
    SchedulerScheduleAt(IF SchedulerContains(s, key) THEN SchedulerCancel(s, key) ELSE s,
                        duration, key, ReapplyRole)

\* lines 143-151: the 30 day check, then the role is removed
OffCommand(m, delta) ==
    /\ CanIssue(m)
    /\ ncommands' = ncommands + 1
    /\ recovering' = recovering \ {m}
    /\ IF OffTooLong((now + delta) - now)
       THEN /\ last' = Step("off_command", m, delta, 0, "rejected")
            /\ hist' = SetHist(m, "none")
            /\ UNCHANGED << roles, cmd >>
       ELSE /\ last' = Step("off_command", m, delta, 0, "accepted")
            /\ hist' = SetHist(m, "none")
            /\ roles' = roles \ {m}
            /\ cmd' = Arrive(m, "off_set", now + delta, 0)
    /\ UNCHANGED << now, pings_off_mods, modpings_schedule, scheduled, tasks,
                    reschedule_task, modpings_schedule_task, ncrashes >>
    /\ UNCHANGED << wait_for_deletion, loaded >>

\* line 153: the off-until entry is written
OffSet(i) ==
    /\ i \in DOMAIN cmd
    /\ cmd[i].pc = "off_set"
    /\ pings_off_mods' = Put(pings_off_mods, cmd[i].mod, IsoFormat(cmd[i].time))
    /\ cmd' = Resume(i, "off_arm")
    /\ last' = Step("off_set", cmd[i].mod, cmd[i].time, 0, "")
    /\ UNCHANGED << now, roles, modpings_schedule, scheduled, tasks, reschedule_task,
                    modpings_schedule_task, ncommands, ncrashes, hist, recovering >>
    /\ UNCHANGED << wait_for_deletion, loaded >>

\* lines 156-162: the timer is (re)armed and the reply is sent
OffArm(i) ==
    /\ i \in DOMAIN cmd
    /\ cmd[i].pc = "off_arm"
    /\ scheduled' = OffReschedule(scheduled, cmd[i].mod, cmd[i].time)
    /\ cmd' = Without(cmd, i)
    /\ hist' = SetHist(cmd[i].mod, IF cmd[i].alone THEN "off" ELSE "none")
    /\ last' = Ended(i, "off_arm", cmd[i].time, 0, "")
    /\ UNCHANGED << now, roles, pings_off_mods, modpings_schedule, tasks, reschedule_task,
                    modpings_schedule_task, ncommands, ncrashes, recovering >>
    /\ UNCHANGED << wait_for_deletion, loaded >>

----------------------------------------------------------------------------
(* on_command *)

\* lines 168-173: the notice when the role is held, else the role is added
OnCommand(m) ==
    /\ CanIssue(m)
    /\ ncommands' = ncommands + 1
    /\ recovering' = recovering \ {m}
    /\ IF MemberInList(m, roles)
       THEN /\ last' = Step("on_command", m, 0, 0, "already")
            /\ hist' = SetHist(m, "none")
            /\ UNCHANGED << roles, cmd >>
       ELSE /\ last' = Step("on_command", m, 0, 0, "accepted")
            /\ roles' = roles \cup {m}
            /\ cmd' = Arrive(m, "on_delete", 0, 0)
            /\ hist' = SetHist(m, IF hist[m] = "off" THEN "on" ELSE "none")
    /\ UNCHANGED << now, pings_off_mods, modpings_schedule, scheduled, tasks,
                    reschedule_task, modpings_schedule_task, ncrashes >>
    /\ UNCHANGED << wait_for_deletion, loaded >>

\* line 175: the off-until entry is deleted
OnDelete(i) ==
    /\ i \in DOMAIN cmd
    /\ cmd[i].pc = "on_delete"
    /\ pings_off_mods' = Del(pings_off_mods, cmd[i].mod)
    /\ cmd' = Resume(i, "on_cancel")
    /\ hist' = SetHist(cmd[i].mod, IF hist[cmd[i].mod] = "on" THEN "on" ELSE "none")
    /\ last' = Step("on_delete", cmd[i].mod, 0, 0, "")
    /\ UNCHANGED << now, roles, modpings_schedule, scheduled, tasks, reschedule_task,
                    modpings_schedule_task, ncommands, ncrashes, recovering >>
    /\ UNCHANGED << wait_for_deletion, loaded >>

\* (variant: the reply is sent without cancelling the task)
OnCancelKeepsTask(i) ==
    /\ i \in DOMAIN cmd
    /\ cmd[i].pc = "on_cancel"
    /\ cmd' = Without(cmd, i)
    /\ hist' = SetHist(cmd[i].mod, IF hist[cmd[i].mod] = "on" THEN "off_on" ELSE "none")
    /\ last' = Ended(i, "on_cancel", 0, 0,
                     IF SchedulerContains(scheduled, cmd[i].mod) THEN "cancelled" ELSE "absent")
    /\ UNCHANGED << now, roles, pings_off_mods, modpings_schedule, scheduled, tasks,
                    reschedule_task, modpings_schedule_task, ncommands, ncrashes,
                    recovering >>
    /\ UNCHANGED << wait_for_deletion, loaded >>

\* lines 178-180: the task is cancelled and the reply is sent
OnCancel(i) ==
    /\ i \in DOMAIN cmd
    /\ cmd[i].pc = "on_cancel"
    /\ scheduled' = SchedulerCancel(scheduled, cmd[i].mod)
    /\ cmd' = Without(cmd, i)
    /\ hist' = SetHist(cmd[i].mod, IF hist[cmd[i].mod] = "on" THEN "off_on" ELSE "none")
    /\ last' = Ended(i, "on_cancel", 0, 0,
                     IF SchedulerContains(scheduled, cmd[i].mod) THEN "cancelled" ELSE "absent")
    /\ UNCHANGED << now, roles, pings_off_mods, modpings_schedule, tasks, reschedule_task,
                    modpings_schedule_task, ncommands, ncrashes, recovering >>
    /\ UNCHANGED << wait_for_deletion, loaded >>

----------------------------------------------------------------------------
(* schedule_modpings *)

\* lines 187-188: an end before the start falls on the next day
MidnightAdjust(start, end) == IF DtLess(end, start) THEN DtAdd(end, Day) ELSE end

\* line 190: (end - start) < timedelta(hours=MINIMUM_WORK_LIMIT)
TooShort(start, end) == DtSub(end, start) < MINIMUM_WORK_LIMIT * Hour

\* lines 194-195: the offsets are dropped, then the seconds between the two
WorkTime(start, end) == DtSub(StripTz(end), StripTz(start))

\* lines 185-197: parse, adjust, check, then the schedule entry is written
ScheduleCommand(m, start, end) ==
    /\ CanIssue(m)
    /\ ncommands' = ncommands + 1
    /\ hist' = SetHist(m, "none")
    /\ recovering' = recovering \ {m}
    /\ IF Mixed(start, end)
       THEN \* `end < start` raises TypeError: the command ends there
            /\ last' = ScheduleStep(m, start, end, "error")
            /\ UNCHANGED << modpings_schedule, cmd >>
       ELSE LET end1 == MidnightAdjust(start, end)
            IN IF TooShort(start, end1)
               THEN /\ last' = ScheduleStep(m, start, end, "rejected")
                    /\ UNCHANGED << modpings_schedule, cmd >>
               ELSE /\ last' = ScheduleStep(m, start, end, "accepted")
                    /\ modpings_schedule' =
                           Put(modpings_schedule, m,
                               ScheduleValue(StripTz(start), WorkTime(start, end1)))
                    /\ cmd' = Arrive(m, "schedule_arm", StripTz(start).wall,
                                     WorkTime(start, end1))
    /\ UNCHANGED << now, roles, pings_off_mods, scheduled, tasks, reschedule_task,
                    modpings_schedule_task, ncrashes >>
    /\ UNCHANGED << wait_for_deletion, loaded >>

\* lines 199-207: the first shift start is armed and the reply is sent
ScheduleArm(i) ==
    /\ i \in DOMAIN cmd
    /\ cmd[i].pc = "schedule_arm"
    /\ scheduled' = SchedulerScheduleAt(scheduled, cmd[i].time, cmd[i].mod,
                                        AddRoleSchedule(cmd[i].work, cmd[i].time))
    /\ cmd' = Without(cmd, i)
    /\ hist' = SetHist(cmd[i].mod, "none")
    /\ last' = Ended(i, "schedule_arm", cmd[i].time, cmd[i].work, "")
    /\ UNCHANGED << now, roles, pings_off_mods, modpings_schedule, tasks, reschedule_task,
                    modpings_schedule_task, ncommands, ncrashes, recovering >>
    /\ UNCHANGED << wait_for_deletion, loaded >>

----------------------------------------------------------------------------
(* reschedule_roles *)

\* The timers, caches and roles a run of the reconciler ended with
Outcome(s, off, schedule, held) ==
    [scheduled |-> s, pings_off_mods |-> off, modpings_schedule |-> schedule, roles |-> held]

\* `run` counts the times __init__ created the two startup tasks; `once` is
\* the outcome of the first run, kept for comparison with the second.
RescheduleIdle ==
    [pc |-> "start", pings_on |-> {}, pings_off |-> Empty, todo |-> << >>, run |-> 1,
     once |-> Outcome(Empty, Empty, Empty, {})]

\* lines 45-50: the guild is available, the role holders are read
RescheduleRolesStart ==
    /\ reschedule_task.pc = "start"
    /\ reschedule_task' = [reschedule_task EXCEPT !.pc = "to_dict", !.pings_on = roles]
    /\ last' = Step("reschedule_roles", 0, 0, 0, "start")
    /\ UNCHANGED << now, roles, pings_off_mods, modpings_schedule, scheduled, tasks, cmd,
                    modpings_schedule_task, ncommands, ncrashes, hist, recovering >>
    /\ UNCHANGED << wait_for_deletion, loaded >>

\* line 51: pings_off = await self.pings_off_mods.to_dict()
RescheduleRolesToDict ==
    /\ reschedule_task.pc = "to_dict"
    /\ reschedule_task' = [reschedule_task EXCEPT !.pc = "loop",
                                                  !.pings_off = pings_off_mods,
                                                  !.todo = ModTeam]
    /\ last' = Step("reschedule_roles", 0, 0, 0, "to_dict")
    /\ UNCHANGED << now, roles, pings_off_mods, modpings_schedule, scheduled, tasks, cmd,
                    modpings_schedule_task, ncommands, ncrashes, hist, recovering >>
    /\ UNCHANGED << wait_for_deletion, loaded >>

\* (variant: the entry of a moderator is deleted once their timer is armed)
RECURSIVE RescheduleLoopConsumesEntry(_, _, _, _)
RescheduleLoopConsumesEntry(todo, pings_on, pings_off, s) ==
    IF todo = << >>
    THEN [todo |-> << >>, scheduled |-> s, await |-> "none", mod |-> 0]
    ELSE LET mod == Head(todo)
         IN IF MemberInList(mod, pings_on)
            THEN IF MemberInCache(mod, pings_off)
                 THEN [todo |-> Tail(todo), scheduled |-> s, await |-> "delete", mod |-> mod]
                 ELSE RescheduleLoopConsumesEntry(Tail(todo), pings_on, pings_off, s)
            ELSE IF ~IdInCache(mod, pings_off)
                 THEN [todo |-> Tail(todo), scheduled |-> s, await |-> "reapply_role",
                       mod |-> mod]
                 ELSE [todo |-> Tail(todo),
                       scheduled |-> SchedulerScheduleAt(s, IsoParse(pings_off[mod]), mod,
                                                         ReapplyRole),
                       await |-> "delete", mod |-> mod]

\* lines 54-65: the loop body, run from the head of `todo` up to the next
\* await (a cache delete or a role re-apply) or to the end of the team.
RECURSIVE RescheduleLoop(_, _, _, _)
RescheduleLoop(todo, pings_on, pings_off, s) ==
    IF todo = << >>
    THEN [todo |-> << >>, scheduled |-> s, await |-> "none", mod |-> 0]
    ELSE LET mod == Head(todo)
         IN IF MemberInList(mod, pings_on)
            THEN IF MemberInCache(mod, pings_off)
                 THEN [todo |-> Tail(todo), scheduled |-> s, await |-> "delete", mod |-> mod]
                 ELSE RescheduleLoop(Tail(todo), pings_on, pings_off, s)
            ELSE IF ~IdInCache(mod, pings_off)
                 THEN [todo |-> Tail(todo), scheduled |-> s, await |-> "reapply_role",
                       mod |-> mod]
                 ELSE RescheduleLoop(Tail(todo), pings_on, pings_off,
                                     SchedulerScheduleAt(s, IsoParse(pings_off[mod]), mod,
                                                         ReapplyRole))

\* One resumption of the loop, with the effect of the call it then awaits.
RescheduleRolesLoop ==
    /\ reschedule_task.pc = "loop"
    /\ LET r == RescheduleLoop(reschedule_task.todo, reschedule_task.pings_on,
                               reschedule_task.pings_off, scheduled)
       IN /\ scheduled' = r.scheduled
          /\ reschedule_task' = [reschedule_task EXCEPT
                                    !.pc = IF r.await = "none" THEN "done" ELSE "loop",
                                    !.todo = r.todo]
          /\ pings_off_mods' = IF r.await = "delete" THEN Del(pings_off_mods, r.mod)
                                                     ELSE pings_off_mods
          /\ roles' = IF r.await = "reapply_role" THEN roles \cup {r.mod} ELSE roles
          /\ last' = Step("reschedule_roles", r.mod, 0, 0, r.await)
    /\ hist' = [m \in Mods |-> "none"]
    /\ UNCHANGED << now, modpings_schedule, tasks, cmd, modpings_schedule_task,
                    ncommands, ncrashes, recovering >>
    /\ UNCHANGED << wait_for_deletion, loaded >>

----------------------------------------------------------------------------
(* reschedule_modpings_schedule *)

ModpingsScheduleIdle == [pc |-> "start", schedule_cache |-> Empty]

\* lines 69-70: the guild is available,
\* schedule_cache = await self.modpings_schedule.to_dict()
RescheduleModpingsScheduleToDict ==
    /\ modpings_schedule_task.pc = "start"
    /\ GuildReady
    /\ modpings_schedule_task' = [pc |-> "loop", schedule_cache |-> modpings_schedule]
    /\ last' = Step("reschedule_modpings_schedule_to_dict", 0, 0, 0, "")
    /\ UNCHANGED << now, roles, pings_off_mods, modpings_schedule, scheduled, tasks, cmd,
                    reschedule_task, ncommands, ncrashes, hist, recovering >>
    /\ UNCHANGED << wait_for_deletion, loaded >>

\* lines 72-82, over the snapshot of line 70: `for mod_id, schedule in
\* schedule_cache` iterates the keys of the dict; unpacking the first key, an
\* int, raises TypeError and ends the task before anything is scheduled.  An
\* empty snapshot ends the loop at once.
RescheduleModpingsSchedule ==
    /\ modpings_schedule_task.pc = "loop"
    /\ modpings_schedule_task' =
           [modpings_schedule_task EXCEPT
               !.pc = IF DOMAIN modpings_schedule_task.schedule_cache = {}
                      THEN "done" ELSE "failed"]
    /\ last' = Step("reschedule_modpings_schedule", 0, 0, 0, modpings_schedule_task'.pc)
    /\ UNCHANGED << now, roles, pings_off_mods, modpings_schedule, scheduled, tasks, cmd,
                    reschedule_task, ncommands, ncrashes, hist, recovering >>
    /\ UNCHANGED << wait_for_deletion, loaded >>

----------------------------------------------------------------------------
(* The scheduled coroutines *)

Due(m) == SchedulerContains(scheduled, m) /\ scheduled[m].time <= now

\* reapply_role, lines 111-114, run by the timer armed at lines 65 and 158
ReapplyRoleFires(m) ==
    /\ Due(m)
    /\ scheduled[m].action = "reapply_role"
    /\ scheduled' = Del(scheduled, m)
    /\ roles' = roles \cup {m}
    /\ hist' = SetHist(m, "none")
    /\ recovering' = recovering \ {m}
    /\ last' = Step("reapply_role", m, scheduled[m].time, 0, "")
    /\ UNCHANGED << now, pings_off_mods, modpings_schedule, tasks, cmd, reschedule_task,
                    modpings_schedule_task, ncommands, ncrashes >>
    /\ UNCHANGED << wait_for_deletion, loaded >>

\* A fired add_role_schedule coroutine, suspended before step `pc`; `off`
\* and `skip` are what the dict read at line 101 held: an entry under
\* mod.id, and the outcome of the test `mod in ...`
ShiftTask(mod, work, start, pc, wake, off, skip) ==
    [mod |-> mod, work |-> work, start |-> start, pc |-> pc, wake |-> wake,
     off |-> off, skip |-> skip]

SetTask(i, t) == [tasks EXCEPT ![i] = t]

\* the timer fires: add_role_schedule up to line 101, await to_dict()
AddRoleScheduleFires(m) ==
    /\ Due(m)
    /\ scheduled[m].action = "add_role_schedule"
    /\ scheduled' = Del(scheduled, m)
    /\ tasks' = Append(tasks, ShiftTask(m, scheduled[m].work, scheduled[m].start,
                                        "add_roles", 0,
                                        IdInCache(m, pings_off_mods),
                                        MemberInCache(m, pings_off_mods)))
    /\ hist' = SetHist(m, "none")
    /\ recovering' = recovering \ {m}
    /\ last' = Step("add_role_schedule_fires", m, scheduled[m].time, scheduled[m].work, "")
    /\ UNCHANGED << now, roles, pings_off_mods, modpings_schedule, cmd, reschedule_task,
                    modpings_schedule_task, ncommands, ncrashes >>
    /\ UNCHANGED << wait_for_deletion, loaded >>

\* lines 101-108: the test, then either await add_roles or, when the role is
\* skipped, straight on to await asyncio.sleep(work_time)
AddRoleScheduleAddRoles(i) ==
    /\ i \in DOMAIN tasks
    /\ tasks[i].pc = "add_roles"
    /\ LET t == tasks[i]
       IN /\ roles' = IF t.skip THEN roles ELSE roles \cup {t.mod}
          /\ tasks' = SetTask(i, IF t.skip
                                 THEN [t EXCEPT !.pc = "asleep", !.wake = now + t.work]
                                 ELSE [t EXCEPT !.pc = "sleep"])
          /\ hist' = SetHist(t.mod, "none")
          /\ recovering' = recovering \ {t.mod}
          /\ last' = Step("add_role_schedule", t.mod, t.start, t.work,
                          IF t.skip THEN "skipped" ELSE "applied")
    /\ UNCHANGED << now, pings_off_mods, modpings_schedule, scheduled, cmd,
                    reschedule_task, modpings_schedule_task, ncommands, ncrashes >>
    /\ UNCHANGED << wait_for_deletion, loaded >>

\* line 108: await asyncio.sleep(work_time)
AddRoleScheduleSleep(i) ==
    /\ i \in DOMAIN tasks
    /\ tasks[i].pc = "sleep"
    /\ tasks' = SetTask(i, [tasks[i] EXCEPT !.pc = "asleep", !.wake = now + tasks[i].work])
    /\ last' = Step("sleep", tasks[i].mod, tasks[i].start, tasks[i].work, "")
    /\ UNCHANGED << now, roles, pings_off_mods, modpings_schedule, scheduled, cmd,
                    reschedule_task, modpings_schedule_task, ncommands, ncrashes, hist,
                    recovering >>
    /\ UNCHANGED << wait_for_deletion, loaded >>

\* the sleep ends, line 109, then remove_role_schedule up to line 87,
\* await mod.remove_roles
RemoveRoleSchedule(i) ==
    /\ i \in DOMAIN tasks
    /\ tasks[i].pc = "asleep"
    /\ tasks[i].wake <= now
    /\ roles' = roles \ {tasks[i].mod}
    /\ tasks' = SetTask(i, [tasks[i] EXCEPT !.pc = "schedule_at"])
    /\ hist' = SetHist(tasks[i].mod, "none")
    /\ recovering' = recovering \ {tasks[i].mod}
    /\ last' = Step("remove_roles", tasks[i].mod, tasks[i].start, tasks[i].work, "")
    /\ UNCHANGED << now, pings_off_mods, modpings_schedule, scheduled, cmd,
                    reschedule_task, modpings_schedule_task, ncommands, ncrashes >>
    /\ UNCHANGED << wait_for_deletion, loaded >>

\* line 91: schedule_start += datetime.timedelta(minutes=1)
RearmTime(schedule_start, work_time) == schedule_start + REARM_GAP_MINUTES * Minute

\* lines 91-96: the next shift start is armed and the coroutine ends
RemoveRoleScheduleArms(i) ==
    /\ i \in DOMAIN tasks
    /\ tasks[i].pc = "schedule_at"
    /\ LET t == tasks[i]
           next_start == RearmTime(t.start, t.work)
       IN /\ scheduled' = SchedulerScheduleAt(scheduled, next_start, t.mod,
                                              AddRoleSchedule(t.work, next_start))
          /\ hist' = SetHist(t.mod, "none")
          /\ last' = Step("remove_role_schedule", t.mod, t.start, t.work, "")
    /\ tasks' = Without(tasks, i)
    /\ UNCHANGED << now, roles, pings_off_mods, modpings_schedule, cmd, reschedule_task,
                    modpings_schedule_task, ncommands, ncrashes, recovering >>
    /\ UNCHANGED << wait_for_deletion, loaded >>

----------------------------------------------------------------------------
(* Time and restarts *)

Asleep == { i \in DOMAIN tasks : tasks[i].pc = "asleep" }

Deadlines == { scheduled[k].time : k \in DOMAIN scheduled }
                \cup { tasks[i].wake : i \in Asleep }

Runnable ==
    \/ \E t \in Deadlines : t <= now
    \/ \E i \in DOMAIN tasks : i \notin Asleep
    \/ cmd # << >>
    \/ reschedule_task.pc \notin {"done", "cancelled"}
    \/ modpings_schedule_task.pc \in {"start", "loop"}

\* The clock moves to the next deadline once nothing is left to run.
Tick ==
    /\ ~Runnable
    /\ Deadlines # {}
    /\ LET t == CHOOSE d \in Deadlines : \A e \in Deadlines : d <= e
       IN /\ t <= MaxTime
          /\ now' = t
    /\ last' = Step("tick", 0, 0, 0, "")
    /\ UNCHANGED << roles, pings_off_mods, modpings_schedule, scheduled, tasks, cmd,
                    reschedule_task, modpings_schedule_task, ncommands, ncrashes, hist,
                    recovering >>
    /\ UNCHANGED << wait_for_deletion, loaded >>

\* cog_unload, lines 209-213: reschedule_task is cancelled (a task that has
\* ended stays as it is) and every pending timer is cancelled.  Coroutines
\* that are already running go on.
CogUnload ==
    /\ loaded
    /\ loaded' = FALSE
    /\ reschedule_task' = IF reschedule_task.pc = "done"
                          THEN reschedule_task
                          ELSE [reschedule_task EXCEPT !.pc = "cancelled"]
    /\ scheduled' = SchedulerCancelAll(scheduled)
    /\ last' = Step("cog_unload", 0, 0, 0, "")
    /\ UNCHANGED << now, roles, pings_off_mods, modpings_schedule, tasks, cmd,
                    modpings_schedule_task, ncommands, ncrashes, hist, recovering,
                    wait_for_deletion >>

\* The process dies and is started again: the caches and the platform's
\* roles survive, the scheduler and every coroutine do not; __init__
\* (lines 33-41) creates the two reconciliation tasks anew.
Crash ==
    /\ ncrashes < MaxCrashes
    /\ ncrashes' = ncrashes + 1
    /\ scheduled' = Empty
    /\ tasks' = << >>
    /\ cmd' = << >>
    /\ reschedule_task' = RescheduleIdle
    /\ modpings_schedule_task' = ModpingsScheduleIdle
    /\ hist' = [m \in Mods |-> "none"]
    /\ recovering' = recovering \cup
           { cmd[i].mod : i \in { j \in DOMAIN cmd : cmd[j].pc = "off_arm" /\ cmd[j].alone } }
    /\ last' = Step("crash", 0, 0, 0, "")
    /\ UNCHANGED << now, roles, pings_off_mods, modpings_schedule, ncommands >>
    /\ loaded' = TRUE
    /\ UNCHANGED wait_for_deletion

----------------------------------------------------------------------------
(* Inputs of the commands *)

\* off: the Expiry converter yields now + delta
OffDeltas == { Hour, OFF_LIMIT_DAYS * Day + 1 }

\* schedule: the parsed start and end
StartInputs == { Naive(22 * Hour), Aware(10 * Hour, 0) }
EndInputs == { Naive(2 * Hour), Naive(18 * Hour), Aware(0, 0 - 8 * Hour) }

----------------------------------------------------------------------------
Init ==
    /\ now = 0
    /\ roles = Mods
    /\ pings_off_mods = Empty
    /\ modpings_schedule = Empty
    /\ scheduled = Empty
    /\ tasks = << >>
    /\ cmd = << >>
    /\ reschedule_task = RescheduleIdle
    /\ modpings_schedule_task = ModpingsScheduleIdle
    /\ ncommands = 0
    /\ ncrashes = 0
    /\ last = Step("init", 0, 0, 0, "")
    /\ hist = [m \in Mods |-> "none"]
    /\ recovering = {}
    /\ wait_for_deletion = NotCalled
    /\ loaded = TRUE

Next ==
    \/ \E m \in Mods, d \in OffDeltas : OffCommand(m, d)
    \/ \E i \in Coroutines : OffSet(i)
    \/ \E i \in Coroutines : OffArm(i)
    \/ \E m \in Mods : OnCommand(m)
    \/ \E i \in Coroutines : OnDelete(i)
    \/ \E i \in Coroutines : OnCancel(i)
    \/ \E m \in Mods, s \in StartInputs, e \in EndInputs : ScheduleCommand(m, s, e)
    \/ \E i \in Coroutines : ScheduleArm(i)
    \/ RescheduleRolesStart
    \/ RescheduleRolesToDict
    \/ RescheduleRolesLoop
    \/ RescheduleModpingsScheduleToDict
    \/ RescheduleModpingsSchedule
    \/ \E m \in Mods : ReapplyRoleFires(m)
    \/ \E m \in Mods : AddRoleScheduleFires(m)
    \/ \E i \in Coroutines : AddRoleScheduleAddRoles(i)
    \/ \E i \in Coroutines : AddRoleScheduleSleep(i)
    \/ \E i \in Coroutines : RemoveRoleSchedule(i)
    \/ \E i \in Coroutines : RemoveRoleScheduleArms(i)
    \/ Tick
    \/ CogUnload
    \/ Crash

Spec == Init /\ [][Next]_vars

\* The event loop runs every runnable coroutine and fires every due timer:
\* the steps that are not a user's command or a crash are taken when enabled.
Internal ==
    \/ \E i \in Coroutines : OffSet(i) \/ OffArm(i) \/ OnDelete(i) \/ OnCancel(i) \/ ScheduleArm(i)
    \/ RescheduleRolesStart \/ RescheduleRolesToDict \/ RescheduleRolesLoop
    \/ RescheduleModpingsScheduleToDict
    \/ RescheduleModpingsSchedule
    \/ \E m \in Mods : ReapplyRoleFires(m) \/ AddRoleScheduleFires(m)
    \/ \E i \in Coroutines : \/ AddRoleScheduleAddRoles(i) \/ AddRoleScheduleSleep(i)
                                \/ RemoveRoleSchedule(i) \/ RemoveRoleScheduleArms(i)
    \/ Tick

FairSpec == Spec /\ WF_vars(Internal)

----------------------------------------------------------------------------
(* The reconciler run twice in a row, from any cache contents and roles *)

StoredExpiries == { IsoFormat(Hour), IsoFormat(OFF_LIMIT_DAYS * Day) }
StoredSchedules == { ScheduleValue(Naive(2 * Hour), 20 * Hour) }
PartialMaps(S, V) == UNION { [D -> V] : D \in SUBSET S }

ReconcileInit ==
    /\ now = 0
    /\ roles \in SUBSET Mods
    /\ pings_off_mods \in PartialMaps(Mods, StoredExpiries)
    /\ modpings_schedule \in PartialMaps(Mods, StoredSchedules)
    /\ scheduled = Empty
    /\ tasks = << >>
    /\ cmd = << >>
    /\ reschedule_task = RescheduleIdle
    /\ modpings_schedule_task = ModpingsScheduleIdle
    /\ ncommands = 0
    /\ ncrashes = 0
    /\ last = Step("init", 0, 0, 0, "")
    /\ hist = [m \in Mods |-> "none"]
    /\ recovering = {}
    /\ wait_for_deletion = NotCalled
    /\ loaded = TRUE

\* __init__ once more, lines 33-41, after the first pair of tasks has ended:
\* line 35 binds a new, empty Scheduler and lines 40-41 create both tasks
\* again.  The caches (Redis) and the roles (Discord) are as the first run
\* left them.
ReconcileAgain ==
    /\ reschedule_task.pc = "done"
    /\ modpings_schedule_task.pc \notin {"start", "loop"}
    /\ reschedule_task.run = 1
    /\ scheduled' = Empty
    /\ reschedule_task' =
           [RescheduleIdle EXCEPT
               !.run = 2,
               !.once = Outcome(scheduled, pings_off_mods, modpings_schedule, roles)]
    /\ modpings_schedule_task' = ModpingsScheduleIdle
    /\ last' = Step("reconcile_again", 0, 0, 0, "")
    /\ UNCHANGED << now, roles, pings_off_mods, modpings_schedule, tasks, cmd,
                    ncommands, ncrashes, hist, recovering >>
    /\ UNCHANGED << wait_for_deletion, loaded >>

ReconcileNext ==
    \/ RescheduleRolesStart
    \/ RescheduleRolesToDict
    \/ RescheduleRolesLoop
    \/ RescheduleModpingsScheduleToDict
    \/ RescheduleModpingsSchedule
    \/ ReconcileAgain

ReconcileSpec == ReconcileInit /\ [][ReconcileNext]_vars

----------------------------------------------------------------------------
(* bot/utils/messages.py: reaction_check and wait_for_deletion *)

MaxReactions == 2       \* reaction_add events dispatched during one wait

BotUser == 10           \* bot.instance.user
Users == { BotUser, 11, 12, 13 }
MessageId == 1          \* message.id
MessageIds == { MessageId, 2 }
EmojiNames == { "trashcan", "x", "thumbsup" }

\* bot.constants.MODERATION_ROLES and the roles of the users: 12 is a
\* moderator, 11 holds another role, 13 is a User without a roles attribute
MODERATION_ROLES == { "moderators", "admins" }
UserRoles(user) ==
    IF user = 12 THEN { "moderators" }
    ELSE IF user = 11 THEN { "helpers" }
    ELSE {}

Range(seq) == { seq[i] : i \in DOMAIN seq }

Reaction(user, emoji, message_id) ==
    [user |-> user, emoji |-> emoji, message_id |-> message_id]

\* lines 36-40
RightReaction(reaction, message_id, allowed_emoji) ==
    /\ reaction.user # BotUser
    /\ reaction.message_id = message_id
    /\ reaction.emoji \in Range(allowed_emoji)

\* lines 44-47
IsModerator(user, allow_mods) ==
    allow_mods /\ \E role \in UserRoles(user) : role \in MODERATION_ROLES

\* (variant: the reaction of the bot itself is not set aside)
ReactionCheckCountsBot(reaction, message_id, allowed_emoji, allowed_users, allow_mods) ==
    IF ~(reaction.message_id = message_id /\ reaction.emoji \in Range(allowed_emoji))
    THEN [result |-> FALSE, remove_reaction |-> FALSE]
    ELSE IF reaction.user \in allowed_users \/ IsModerator(reaction.user, allow_mods)
         THEN [result |-> TRUE, remove_reaction |-> FALSE]
         ELSE [result |-> FALSE, remove_reaction |-> TRUE]

\* reaction_check, lines 21-59: the value returned, and whether the task
\* that removes the reaction is created
ReactionCheck(reaction, message_id, allowed_emoji, allowed_users, allow_mods) ==
    IF ~RightReaction(reaction, message_id, allowed_emoji)
    THEN [result |-> FALSE, remove_reaction |-> FALSE]
    ELSE IF reaction.user \in allowed_users \/ IsModerator(reaction.user, allow_mods)
         THEN [result |-> TRUE, remove_reaction |-> FALSE]
         ELSE [result |-> FALSE, remove_reaction |-> TRUE]

cog_vars == << now, roles, pings_off_mods, modpings_schedule, scheduled, tasks, cmd,
               reschedule_task, modpings_schedule_task, ncommands, ncrashes, last,
               hist, recovering, loaded >>

\* The arguments of a call, and the state of the coroutine and the message
WaitCall(user_ids, deletion_emojis, attach_emojis, allow_mods, guild) ==
    [pc |-> "called", user_ids |-> user_ids, deletion_emojis |-> deletion_emojis,
     attach_emojis |-> attach_emojis, allow_mods |-> allow_mods, guild |-> guild,
     todo |-> << >>,        \* emojis still to attach
     exists |-> TRUE,       \* the message is still on the platform
     deleted |-> FALSE,     \* message.delete() was called
     heard |-> << >>,       \* the reaction_add events dispatched to the check
     removed |-> {}]        \* reactions a remove_reaction task was created for

\* lines 78-81: the guild test, then either the emojis or the wait
WaitForDeletionStart ==
    /\ wait_for_deletion.pc = "called"
    /\ wait_for_deletion' =
           IF ~wait_for_deletion.guild
           THEN [wait_for_deletion EXCEPT !.pc = "ValueError"]
           ELSE IF wait_for_deletion.attach_emojis
                THEN [wait_for_deletion EXCEPT !.pc = "add_reaction",
                                               !.todo = wait_for_deletion.deletion_emojis]
                ELSE [wait_for_deletion EXCEPT !.pc = "wait_for"]
    /\ UNCHANGED cog_vars

\* Someone else deletes the message while the emojis are being attached
DeletedPrematurely ==
    /\ wait_for_deletion.pc = "add_reaction"
    /\ wait_for_deletion.exists
    /\ wait_for_deletion' = [wait_for_deletion EXCEPT !.exists = FALSE]
    /\ UNCHANGED cog_vars

\* lines 82-87: one emoji is attached; NotFound ends the call
AddReaction ==
    /\ wait_for_deletion.pc = "add_reaction"
    /\ wait_for_deletion' =
           IF ~wait_for_deletion.exists
           THEN [wait_for_deletion EXCEPT !.pc = "aborted"]
           ELSE [wait_for_deletion EXCEPT
                    !.todo = Tail(@),
                    !.pc = IF Tail(wait_for_deletion.todo) = << >>
                           THEN "wait_for" ELSE "add_reaction"]
    /\ UNCHANGED cog_vars

\* line 98: a reaction_add event is dispatched to the check of wait_for
ReactionAdd(user, emoji, message_id) ==
    /\ wait_for_deletion.pc = "wait_for"
    /\ Len(wait_for_deletion.heard) < MaxReactions
    /\ LET reaction == Reaction(user, emoji, message_id)
           check == ReactionCheck(reaction, MessageId, wait_for_deletion.deletion_emojis,
                                  wait_for_deletion.user_ids, wait_for_deletion.allow_mods)
       IN wait_for_deletion' =
              [wait_for_deletion EXCEPT
                  !.heard = Append(@, reaction),
                  !.removed = IF check.remove_reaction THEN @ \cup {reaction} ELSE @,
                  !.pc = IF check.result THEN "delete" ELSE "wait_for"]
    /\ UNCHANGED cog_vars

\* lines 97-98: the timeout elapses, TimeoutError is suppressed
WaitTimeout ==
    /\ wait_for_deletion.pc = "wait_for"
    /\ wait_for_deletion' = [wait_for_deletion EXCEPT !.pc = "timed_out"]
    /\ UNCHANGED cog_vars

\* line 99: await message.delete()
MessageDelete ==
    /\ wait_for_deletion.pc = "delete"
    /\ wait_for_deletion' = [wait_for_deletion EXCEPT !.pc = "returned",
                                                      !.deleted = TRUE,
                                                      !.exists = FALSE]
    /\ UNCHANGED cog_vars

UserIdsInputs == { {}, {11}, {BotUser, 11} }
DeletionEmojisInputs == { << "trashcan" >>, << "trashcan", "x" >> }

DeletionInit ==
    /\ now = 0
    /\ roles = Mods
    /\ pings_off_mods = Empty
    /\ modpings_schedule = Empty
    /\ scheduled = Empty
    /\ tasks = << >>
    /\ cmd = << >>
    /\ reschedule_task = RescheduleIdle
    /\ modpings_schedule_task = ModpingsScheduleIdle
    /\ ncommands = 0
    /\ ncrashes = 0
    /\ last = Step("init", 0, 0, 0, "")
    /\ hist = [m \in Mods |-> "none"]
    /\ recovering = {}
    /\ loaded = TRUE
    /\ \E user_ids \in UserIdsInputs, deletion_emojis \in DeletionEmojisInputs,
          attach_emojis \in BOOLEAN, allow_mods \in BOOLEAN, guild \in BOOLEAN :
           wait_for_deletion =
               WaitCall(user_ids, deletion_emojis, attach_emojis, allow_mods, guild)

DeletionNext ==
    \/ WaitForDeletionStart
    \/ DeletedPrematurely
    \/ AddReaction
    \/ \E user \in Users, emoji \in EmojiNames, message_id \in MessageIds :
           ReactionAdd(user, emoji, message_id)
    \/ WaitTimeout
    \/ MessageDelete

DeletionSpec == DeletionInit /\ [][DeletionNext]_vars

----------------------------------------------------------------------------
(* Properties *)

Quiet(m) == InProgress(m) = {}

\* The re-apply timer of moderator m, pending at time t
ReapplyPendingAt(m, t) ==
    /\ SchedulerContains(scheduled, m)
    /\ scheduled[m].action = "reapply_role"
    /\ scheduled[m].time = t

\* C1: once reschedule_roles has completed, every moderator with an
\* off-until entry E (and no command of theirs in progress) has a pending
\* timer under their id that re-applies the role at E.
C1_EntryHasTimer ==
    (loaded /\ reschedule_task.pc = "done") =>
        \A m \in DOMAIN pings_off_mods :
            Quiet(m) => ReapplyPendingAt(m, IsoParse(pings_off_mods[m]))

\* C2: in the state right after the off-expiry timer of a moderator has
\* fired, the moderator's off-until entry is gone and the role is held.
C2_FiredTimerRemovesEntry ==
    (loaded /\ last.op = "reapply_role") =>
        /\ ~IdInCache(last.mod, pings_off_mods)
        /\ last.mod \in roles

\* C3: after an accepted off followed immediately by on, by the same
\* moderator, that moderator has no off-until entry, no pending timer under
\* their id, and holds the role.
C3_OffThenOn ==
    \A m \in Mods :
        hist[m] = "off_on" =>
            /\ ~IdInCache(m, pings_off_mods)
            /\ ~SchedulerContains(scheduled, m)
            /\ m \in roles

C3_Witness == \E m \in Mods : hist[m] = "off_on"

\* C4: an off command whose expiry lies more than 30 days after the current
\* time is rejected, and leaves both caches, the pending timers and the
\* roles as they were.
C4_OffTooLongRejected ==
    [][ (last'.op = "off_command" /\ last'.a > 30 * Day) =>
            /\ last'.out = "rejected"
            /\ cmd' = cmd
            /\ UNCHANGED << pings_off_mods, modpings_schedule, scheduled, roles >> ]_vars

C4_Witness == last.op = "off_command" /\ last.a > 30 * Day /\ last.out = "rejected"

\* C5: a schedule command whose window is under 16 hours is rejected with
\* nothing written or armed, so every entry of the shift-schedule cache has
\* work_seconds >= 57600.
C5_WorkSecondsAtLeastMinimum ==
    \A m \in DOMAIN modpings_schedule : modpings_schedule[m][2] >= 57600

\* C6: an accepted schedule(T, T + 20h) leaves the entry (T, 72000) for the
\* caller and a timer under the caller's id that starts the shift at T; and
\* a shift start that fires with no off-until entry applies the role.
C6_ScheduleArmsTimer ==
    /\ (last.op = "schedule_arm" /\ last.alone /\ last.b = 20 * Hour) =>
            /\ modpings_schedule[last.mod] = << last.a, 72000 >>
            /\ SchedulerContains(scheduled, last.mod)
            /\ scheduled[last.mod].action = "add_role_schedule"
            /\ scheduled[last.mod].time = last.a
    /\ (last.op = "add_role_schedule" /\ ~IdInCache(last.mod, pings_off_mods)) =>
            last.mod \in roles

\* C7: when a shift that started at previous_start with duration
\* work_duration ends, the role is removed and the next shift start is
\* pending, with fire time previous_start + work_duration + 1 minute.
C7_RearmAfterShift ==
    (loaded /\ last.op = "remove_role_schedule") =>
        /\ last.mod \notin roles
        /\ SchedulerContains(scheduled, last.mod)
        /\ scheduled[last.mod].action = "add_role_schedule"
        /\ scheduled[last.mod].time = last.a + last.b + 60

\* C8: for a schedule command with end < start, the window checked against
\* the minimum and the work_seconds written are both (end + 1 day) - start.
C8_MidnightWindow ==
    (/\ last.op = "schedule_modpings"
     /\ last.out # "error"
     /\ DtLess(last.end, last.start)) =>
        LET window == DtSub(DtAdd(last.end, Day), last.start)
        IN /\ last.out = "rejected" <=> window < 16 * Hour
           /\ last.out = "accepted" => modpings_schedule[last.mod][2] = window

\* Both startup tasks of the second run have ended
SecondRunEnded ==
    /\ reschedule_task.run = 2
    /\ reschedule_task.pc = "done"
    /\ modpings_schedule_task.pc \in {"done", "failed"}

\* C9: when the reconciler (reschedule_roles and
\* reschedule_modpings_schedule) has run a second time, with no command and
\* no timer firing since the first run, the pending timers (keys, fire times
\* and actions), both caches and the roles are those the first run ended
\* with: twice yields what once yields.
C9_ReconcileIdempotent ==
    SecondRunEnded =>
        Outcome(scheduled, pings_off_mods, modpings_schedule, roles) = reschedule_task.once

C9_Witness ==
    /\ SecondRunEnded
    /\ modpings_schedule_task.pc = "failed"
    /\ reschedule_task.once.scheduled # Empty
    /\ \E m \in Mods : ReapplyPendingAt(m, Hour)
    /\ \E m \in Mods : m \in reschedule_task.pings_on /\ ~IdInCache(m, pings_off_mods)

\* C10: a moderator whose off command was cut by a crash after the entry was
\* written and before the timer was armed, and who has issued no command
\* since, has the re-apply timer pending at the stored expiry once
\* reschedule_roles has completed after the restart; and a timer that off or
\* schedule has armed is never ahead of the entry the command writes.
C10_WriteThenArmRecovers ==
    /\ \A m \in recovering :
          (loaded /\ reschedule_task.pc = "done") =>
              /\ IdInCache(m, pings_off_mods)
              /\ ReapplyPendingAt(m, IsoParse(pings_off_mods[m]))
    /\ (last.op = "off_arm" /\ last.alone) =>
          /\ IdInCache(last.mod, pings_off_mods)
          /\ pings_off_mods[last.mod] = IsoFormat(last.a)
    /\ (last.op = "schedule_arm" /\ last.alone) =>
          /\ last.mod \in DOMAIN modpings_schedule
          /\ modpings_schedule[last.mod] = << last.a, last.b >>

\* C11: once reschedule_roles has completed, no member of the mod team who
\* held the role when the reconciliation started still has an off-until
\* entry: the stale entry of a role holder has been deleted.
C11_StaleEntriesDeleted ==
    reschedule_task.pc = "done" =>
        \A m \in reschedule_task.pings_on : ~IdInCache(m, pings_off_mods)

\* C12: once reschedule_roles has completed, every member of the mod team
\* who lacked the role when it started is in exactly one of two situations:
\* they had no off-until entry and now hold the role, or they had an entry,
\* still lack the role and a re-apply timer under their id is pending at
\* the stored expiry.
C12_RoleLackersSettled ==
    reschedule_task.pc = "done" =>
        \A m \in Mods \ reschedule_task.pings_on :
            IF m \in DOMAIN reschedule_task.pings_off
            THEN /\ m \notin roles
                 /\ ReapplyPendingAt(m, IsoParse(reschedule_task.pings_off[m]))
            ELSE m \in roles

C12_Witness ==
    /\ reschedule_task.pc = "done"
    /\ \E m \in Mods \ reschedule_task.pings_on :
           /\ m \in DOMAIN reschedule_task.pings_off
           /\ ReapplyPendingAt(m, IsoParse(pings_off_mods[m]))
    /\ \E m \in Mods \ reschedule_task.pings_on :
           /\ m \notin DOMAIN reschedule_task.pings_off
           /\ m \in roles

\* C13: shift schedules survive a restart: when reschedule_modpings_schedule
\* has run after a restart, every entry it read from the cache (line 70) has a
\* timer under the moderator's id, armed at the start and with the work
\* duration the command stored.
C13_SchedulesRearmed ==
    (loaded /\ ncrashes > 0 /\ last.op = "reschedule_modpings_schedule") =>
        \A m \in DOMAIN modpings_schedule_task.schedule_cache :
            Quiet(m) =>
                /\ SchedulerContains(scheduled, m)
                /\ scheduled[m].action = "add_role_schedule"
                /\ scheduled[m].time = modpings_schedule_task.schedule_cache[m][1]
                /\ scheduled[m].work = modpings_schedule_task.schedule_cache[m][2]

\* C14: the off-until entry takes precedence over the shift schedule: when
\* the shift-start timer of a moderator fires while they have an off-until
\* entry, the moderators role is not applied to them.
C14_OffBeatsShiftStart ==
    loaded => \A i \in DOMAIN tasks : (tasks[i].pc = "sleep" /\ tasks[i].off) => tasks[i].skip

\* The off command of moderator m has been accepted and has not yet replied
OffInProgress(m) == \E i \in InProgress(m) : cmd[i].pc \in {"off_set", "off_arm"}

\* C15, its end state: when an accepted off command has completed, the
\* off-until entry holds the new expiry and the only timer under the
\* moderator's id is the re-apply timer at that expiry.
C15_OffEndState ==
    (last.op = "off_arm" /\ last.alone) =>
        /\ IdInCache(last.mod, pings_off_mods)
        /\ pings_off_mods[last.mod] = IsoFormat(last.a)
        /\ ReapplyPendingAt(last.mod, last.a)

\* C15: off always overwrites: after an accepted off(d2) of a moderator who
\* had a pending timer, the entry holds the expiry of d2, the only timer
\* under their id is the re-apply at that expiry, and the previous timer
\* was cancelled without firing.
C15_OffOverwrites ==
    /\ C15_OffEndState
    /\ \A m \in Mods :
           (last.mod = m /\ last.op \in {"reapply_role", "add_role_schedule"}) =>
               ~OffInProgress(m)

\* A fired shift coroutine of moderator m is asleep
ShiftInFlight(m) == \E i \in DOMAIN tasks : tasks[i].mod = m

\* C16: under every interleaving of commands, timer firings and the
\* reconciler, a moderator id has at most one outstanding timer, no two
\* scheduled actions of one moderator run at the same time, and schedule_at
\* (lines 93 and 199) is never called for a key whose timer is still
\* pending or whose action is still in flight.
C16_OneTimerPerModerator ==
    [][ /\ last'.op = "schedule_arm" =>
               /\ ~SchedulerContains(scheduled, last'.mod)
               /\ ~ShiftInFlight(last'.mod)
        /\ last'.op = "remove_role_schedule" =>
               ~SchedulerContains(scheduled, last'.mod)
        /\ \A i, j \in DOMAIN tasks' : i # j => tasks'[i].mod # tasks'[j].mod
      ]_vars

\* A shift start of moderator m is pending
ShiftPending(m) ==
    SchedulerContains(scheduled, m) /\ scheduled[m].action = "add_role_schedule"

\* C17: the shift cycle is unbounded: once the schedule command of a
\* moderator has been accepted, and with no off, on, cancellation or unload
\* after it, the role is applied and removed again and again as the timers
\* fire.  The cycle lives in the scheduler only, so when the command has
\* replied there is a shift start pending or a shift in flight for them.
C17_ShiftCycleRuns ==
    (last.op = "schedule_arm" /\ last.alone) =>
        (ShiftPending(last.mod) \/ ShiftInFlight(last.mod))

\* A reaction on the watched message with one of the deletion emojis
Matching(r) ==
    /\ r.message_id = MessageId
    /\ \E i \in DOMAIN wait_for_deletion.deletion_emojis :
           wait_for_deletion.deletion_emojis[i] = r.emoji

\* The user of a reaction may delete the message
MayDelete(r) ==
    /\ r.user # BotUser
    /\ \/ r.user \in wait_for_deletion.user_ids
       \/ wait_for_deletion.allow_mods /\ UserRoles(r.user) \cap MODERATION_ROLES # {}

WaitEnded == wait_for_deletion.pc \in {"returned", "timed_out", "aborted", "ValueError"}

\* C18: wait_for_deletion deletes the message if and only if, before the
\* timeout, a reaction is added to that message with a deletion emoji by a
\* user other than the bot who is in user_ids or (allow_mods) holds a
\* moderation role; on timeout the message is not deleted and nothing is
\* raised; a matching reaction of a disallowed user is removed and does not
\* trigger the deletion.
C18_DeletionGate ==
    LET w == wait_for_deletion
        heard == { w.heard[i] : i \in DOMAIN w.heard }
    IN /\ WaitEnded =>
              (w.deleted <=> \E r \in heard : Matching(r) /\ MayDelete(r))
       /\ w.pc = "timed_out" => (~w.deleted /\ w.exists)
       /\ \A r \in heard :
              (Matching(r) /\ r.user # BotUser /\ ~MayDelete(r)) => r \in w.removed
       /\ \A i \in DOMAIN w.heard :
              (w.pc \in {"delete", "returned"} /\ i < Len(w.heard)) =>
                  ~(Matching(w.heard[i]) /\ MayDelete(w.heard[i]))

\* A disallowed user's matching reaction was removed, then an allowed
\* user's reaction deleted the message
C18_Witness ==
    /\ wait_for_deletion.pc = "returned"
    /\ wait_for_deletion.deleted
    /\ Len(wait_for_deletion.heard) = 2
    /\ wait_for_deletion.heard[1] \in wait_for_deletion.removed
    /\ MayDelete(wait_for_deletion.heard[2])

\* C19: off and on do not destroy the recurring shift cycle: when a
\* moderator with a shift-schedule entry issues off(duration) or on(), the
\* pending shift start (or the shift in flight) of their cycle is still
\* there once the command has completed.
C19_OffOnKeepShiftCycle ==
    [][ \A m \in Mods :
            ( /\ last'.mod = m
              /\ last'.op \in {"off_arm", "on_cancel"}
              /\ last'.alone
              /\ IdInCache(m, modpings_schedule)
              /\ (ShiftPending(m) \/ ShiftInFlight(m)) )
            => (ShiftPending(m) \/ ShiftInFlight(m))'
      ]_vars

\* C20: no orphan re-apply timers, also when commands interleave with the
\* reconciler: every pending re-apply timer under a moderator's id (no
\* command of theirs in progress) has a current off-until entry with the
\* same expiry, and on never calls cancel for a key without a pending timer.
C20_NoOrphanReapplyTimers ==
    /\ \A m \in Mods :
           (Quiet(m) /\ SchedulerContains(scheduled, m)
                     /\ scheduled[m].action = "reapply_role") =>
               /\ IdInCache(m, pings_off_mods)
               /\ IsoParse(pings_off_mods[m]) = scheduled[m].time
    /\ (last.op = "on_cancel" /\ last.alone) => last.out = "cancelled"

====
